---- MODULE Spec2Model ----
(***************************************************************************)
(* Road-safety risk API: the /predict handler of backend/api/routes.py and *)
(* the functions it calls (validate_input, preprocess_input,               *)
(* adjust_probability, calculate_risk_factors, generate_recommendations),  *)
(* together with the model loading done when the module is imported.       *)
(*                                                                         *)
(* Numbers.  Probabilities are fixed-point integers in units of 1/Scale    *)
(* (products are divided by Scale and rounded down).  The normalised speed *)
(* limit is kept as an exact fraction [num, den].                          *)
(***************************************************************************)
EXTENDS Integers, Sequences, FiniteSets, TLC

\* Units per 1.0 of a probability.
Scale == 10000

\* The Predictor's raw probabilities are k/ProbSteps, k = 0..ProbSteps.
ProbSteps == 5

VARIABLES
    artifact,       \* what is found at model_path when the module is imported
    model,          \* "None" or "loaded"                       (routes.py global)
    feature_names,  \* the schema: a sequence of column names   (routes.py global)
    pc,             \* "idle" | "responded" | "unit" | "unit_done"
    request,        \* the request being answered
    call,           \* what predict did and returned for that request
    unit            \* a direct call of generate_recommendations and its result

vars == <<artifact, model, feature_names, pc, request, call, unit>>

Range(s) == {s[i] : i \in 1..Len(s)}

----------------------------------------------------------------------------
(* INPUT_VALIDATORS *)

Fields == <<"road_type", "weather_conditions", "speed_limit", "time_of_day",
            "junction_detail">>

FieldSet == Range(Fields)

INPUT_VALIDATORS ==
    [road_type |->
        [options  |-> <<1, 2, 3, 6>>,
         required |-> TRUE,
         error    |-> "Please select a valid road type (1: Residential, 2: Suburban, 3: Rural, 6: Urban)"],
     weather_conditions |->
        [options  |-> <<"Fine", "Rain", "Snow", "Fog">>,
         required |-> TRUE,
         error    |-> "Please select valid weather conditions"],
     speed_limit |->
        [options  |-> <<20, 30, 40, 50, 60, 70>>,
         required |-> TRUE,
         error    |-> "Please select a valid speed limit"],
     time_of_day |->
        [options  |-> <<"Morning", "Afternoon", "Evening", "Night">>,
         required |-> TRUE,
         error    |-> "Please select a valid time of day"],
     junction_detail |->
        [options  |-> <<"T Junction", "Crossroads", "Roundabout", "Not at junction">>,
         required |-> TRUE,
         error    |-> "Please select a valid junction type"]]

\* The fields whose options are Python ints (the others are Python strs).
IntFields == {"road_type", "speed_limit"}

\* repr() of one option, as the f-string of validate_input prints it in a list.
PyRepr(field, v) ==
    IF field \in IntFields THEN ToString(v) ELSE "'" \o v \o "'"

RECURSIVE PyJoin(_, _, _)
PyJoin(field, options, i) ==
    IF i > Len(options) THEN ""
    ELSE (IF i > 1 THEN ", " ELSE "") \o PyRepr(field, options[i])
            \o PyJoin(field, options, i + 1)

\* str() of the options list: "[1, 2, 3, 6]", "['Fine', 'Rain', 'Snow', 'Fog']".
PyListStr(field) ==
    "[" \o PyJoin(field, INPUT_VALIDATORS[field].options, 1) \o "]"

\* An empty dict.
EmptyDict == [f \in {} |-> 0]

Put(d, k, v) == [x \in (DOMAIN d) \cup {k} |-> IF x = k THEN v ELSE d[x]]

\* The generated message of the elif branch of validate_input.
InvalidValueMessage(field) ==
    "Invalid value for " \o field \o ". Options are: " \o PyListStr(field)

\* validate_field without its elif branch: a value outside the options passes.
validate_field_noelif(data, field, errors) ==
    LET rules == INPUT_VALIDATORS[field]
    IN  IF rules.required /\ field \notin DOMAIN data
        THEN Put(errors, field, rules.error)
        ELSE errors

\* One iteration of the loop of validate_input: the if / elif on one validator.
validate_field(data, field, errors) ==
    LET rules == INPUT_VALIDATORS[field]
    IN  IF rules.required /\ field \notin DOMAIN data
        THEN Put(errors, field, rules.error)
        ELSE IF field \in DOMAIN data /\ data[field] \notin Range(rules.options)
        THEN Put(errors, field, InvalidValueMessage(field))
        ELSE errors

\* The loop of validate_input from the i-th validator on; errors is the dict so far.
RECURSIVE validate_loop(_, _, _)
validate_loop(data, i, errors) ==
    IF i > Len(Fields) THEN errors
    ELSE validate_loop(data, i + 1, validate_field(data, Fields[i], errors))

validate_input(data) == validate_loop(data, 1, EmptyDict)

----------------------------------------------------------------------------
(* calculate_risk_factors *)

AppendIf(cond, s, x) == IF cond THEN Append(s, x) ELSE s

road_type_desc ==
    [k \in {6, 3, 2, 1} |->
        CASE k = 6 -> "Urban area with high traffic"
          [] k = 3 -> "Rural road with potential hazards"
          [] k = 2 -> "Suburban area with moderate traffic"
          [] k = 1 -> "Residential area with lower traffic"]

\* The first four rules of calculate_risk_factors (time, weather, speed, junction).
condition_factors(data) ==
    LET f1 == AppendIf(data["time_of_day"] \in {"Night", "Evening"}, <<>>,
                       "Limited visibility during night/evening hours")
        f2 == AppendIf(data["weather_conditions"] # "Fine", f1,
                       "Adverse weather conditions ("
                           \o data["weather_conditions"] \o ")")
        f3 == AppendIf(data["speed_limit"] > 40, f2, "High speed zone")
    IN  AppendIf(data["junction_detail"] # "Not at junction", f3,
                 "Complex junction type (" \o data["junction_detail"] \o ")")

\* calculate_risk_factors without the inner test on [6, 3]: every described
\* road type becomes a factor.
calculate_risk_factors_anyroad(data) ==
    AppendIf(data["road_type"] \in DOMAIN road_type_desc,
             condition_factors(data), road_type_desc[data["road_type"]])

calculate_risk_factors(data) ==
    AppendIf(data["road_type"] \in DOMAIN road_type_desc
                 /\ data["road_type"] \in {6, 3},
             condition_factors(data), road_type_desc[data["road_type"]])

----------------------------------------------------------------------------
(* generate_recommendations *)

NoRecommendationsNeeded == "No specific recommendations needed at this time"

\* The rules of the "High Risk" branch, in order.
high_risk_rules(data, risk_factors) ==
    LET r1 == AppendIf(data["speed_limit"] > 40, <<>>,
                       "Consider reducing speed limit in this area")
        r2 == AppendIf(data["junction_detail"] # "Not at junction", r1,
                       "Install traffic monitoring cameras at the junction")
        r3 == AppendIf(data["time_of_day"] \in {"Night", "Evening"}, r2,
                       "Improve street lighting conditions")
        r4 == AppendIf(data["weather_conditions"] # "Fine", r3,
                       "Install weather warning signs for "
                           \o data["weather_conditions"] \o " conditions")
    IN  AppendIf(Len(risk_factors) > 0, r4, "Increase police patrols in the area")

\* The rules of the else branch, in order.
not_high_risk_rules(data, risk_factors) ==
    LET r1 == AppendIf(data["junction_detail"] # "Not at junction", <<>>,
                       "Consider additional signage at the junction")
        r2 == AppendIf(data["weather_conditions"] # "Fine", r1,
                       "Ensure regular road maintenance")
        r3 == AppendIf(data["time_of_day"] \in {"Night", "Evening"}, r2,
                       "Consider enhanced road markings")
        r4 == IF Len(risk_factors) > 0
              THEN Append(r3, "Monitor conditions and maintain current safety measures")
              ELSE Append(r3, "Continue regular maintenance and monitoring")
        r5 == AppendIf(data["road_type"] = 1, r4,
                       "Maintain residential area safety features")
    IN  AppendIf(data["speed_limit"] <= 30, r5,
                 "Current speed restrictions are appropriate")

\* generate_recommendations returning the list as built, without the fallback.
generate_recommendations_nofallback(data, risk_level, risk_factors) ==
    IF risk_level = "High Risk"
    THEN high_risk_rules(data, risk_factors)
    ELSE not_high_risk_rules(data, risk_factors)

generate_recommendations(data, risk_level, risk_factors) ==
    LET recommendations ==
            IF risk_level = "High Risk"
            THEN high_risk_rules(data, risk_factors)
            ELSE not_high_risk_rules(data, risk_factors)
    IN  IF recommendations # <<>> THEN recommendations
        ELSE <<NoRecommendationsNeeded>>

----------------------------------------------------------------------------
(* The model artifact and its loading (module import) *)

\* What may be at model_path: no file, an object that is no dict, a dict without
\* 'model', a dict with 'model' but no 'feature_names', a dict with both (its
\* 'feature_names' with or without the column 'speed_limit').
Artifacts == {"missing", "not_dict", "no_model_key", "no_feature_names",
              "complete", "complete_without_speed_limit"}

\* The one-hot codes the training data may hold for each group.
GroupCodes ==
    [road_type          |-> <<1, 2, 3, 6, 9>>,
     weather_conditions |-> <<1, 2, 3, 4, 5>>,
     light_conditions   |-> <<1, 4, 6>>,
     junction_detail    |-> <<0, 1, 2, 3>>]

Groups == DOMAIN GroupCodes

\* The column name f'{group}_{code}'.
Column(group, code) == group \o "_" \o ToString(code)

GroupColumns(group) ==
    [i \in 1..Len(GroupCodes[group]) |-> Column(group, GroupCodes[group][i])]

\* The 'feature_names' of a complete artifact: the columns preprocess_input
\* writes, and the one-hot columns of the codes above.
ArtifactFeatureNames ==
    <<"speed_limit", "number_of_vehicles", "number_of_casualties",
      "casualty_rate", "weather_risk", "surface_risk", "combined_risk",
      "is_night", "is_rush_hour", "is_weekend", "high_speed",
      "night_speed_risk", "weather_speed_risk">>
        \o GroupColumns("road_type") \o GroupColumns("weather_conditions")
        \o GroupColumns("light_conditions") \o GroupColumns("junction_detail")

\* The try / except around joblib.load: the value of the global `model`.
load_model(a) ==
    IF a \in {"missing", "not_dict", "no_model_key"} THEN "None" ELSE "loaded"

\* model_artifacts.get('feature_names', []), and [] in the except branch.
load_feature_names(a) ==
    CASE a = "complete" -> ArtifactFeatureNames
      [] a = "complete_without_speed_limit" -> Tail(ArtifactFeatureNames)
      [] OTHER -> <<>>

----------------------------------------------------------------------------
(* preprocess_input *)

Frac(n, d) == [num |-> n, den |-> d]

\* frac > c, for an integer c.
FracGT(frac, c) == frac.num > c * frac.den

\* dict.get(key, default)
Get(map, key, default) == IF key \in DOMAIN map THEN map[key] ELSE default

weather_map == [k \in {"Fine", "Rain", "Snow", "Fog"} |->
                   CASE k = "Fine" -> 1 [] k = "Rain" -> 2
                     [] k = "Snow" -> 3 [] k = "Fog" -> 4]

time_to_light == [k \in {"Morning", "Afternoon", "Evening", "Night"} |->
                     IF k \in {"Morning", "Afternoon"} THEN 1 ELSE 4]

junction_map == [k \in {"Not at junction", "T Junction", "Crossroads", "Roundabout"} |->
                    CASE k = "Not at junction" -> 0 [] k = "T Junction" -> 1
                      [] k = "Crossroads" -> 2 [] k = "Roundabout" -> 3]

\* The value of column c of df = pd.DataFrame([data]) after the loop
\* `for feature in feature_names: df[feature] = 0`: every schema column, a
\* column of the input included, holds 0.
init_value(data, c) ==
    IF \E i \in DOMAIN feature_names : feature_names[i] = c THEN 0 ELSE data[c]

\* df['speed_limit'].astype(float) / 70.0, from the column as the loop left it.
speed_normalized(data) == Frac(init_value(data, "speed_limit"), 70)

weather_risk(data) ==
    IF init_value(data, "weather_conditions") # "Fine" THEN 1 ELSE 0

surface_risk(data) ==
    IF init_value(data, "weather_conditions") \in {"Rain", "Snow"} THEN 1 ELSE 0

is_night(data) ==
    IF init_value(data, "time_of_day") \in {"Night", "Evening"} THEN 1 ELSE 0

is_rush_hour(data) ==
    IF init_value(data, "time_of_day") \in {"Morning", "Evening"} THEN 1 ELSE 0

\* 1 if df['speed_limit'].values[0] > 40 else 0: the column is read after it
\* was replaced by its normalised value.
high_speed(data) == IF FracGT(speed_normalized(data), 40) THEN 1 ELSE 0

\* The column assignments that follow the loop, in the order of the code.
assignments(data) ==
    <<[col |-> Column("road_type", init_value(data, "road_type")), val |-> 1],
      [col |-> Column("weather_conditions",
                      Get(weather_map, init_value(data, "weather_conditions"), 1)),
       val |-> 1],
      [col |-> Column("light_conditions",
                      Get(time_to_light, init_value(data, "time_of_day"), 1)),
       val |-> 1],
      [col |-> Column("junction_detail",
                      Get(junction_map, init_value(data, "junction_detail"), 0)),
       val |-> 1],
      [col |-> "speed_limit",          val |-> speed_normalized(data)],
      [col |-> "number_of_vehicles",   val |-> 1],
      [col |-> "number_of_casualties", val |-> 0],
      [col |-> "casualty_rate",        val |-> 0],
      [col |-> "weather_risk",         val |-> weather_risk(data)],
      [col |-> "surface_risk",         val |-> surface_risk(data)],
      [col |-> "combined_risk",        val |-> weather_risk(data) + surface_risk(data)],
      [col |-> "is_night",             val |-> is_night(data)],
      [col |-> "is_rush_hour",         val |-> is_rush_hour(data)],
      [col |-> "is_weekend",           val |-> 0],
      [col |-> "high_speed",           val |-> high_speed(data)],
      [col |-> "night_speed_risk",     val |-> is_night(data) * high_speed(data)],
      [col |-> "weather_speed_risk",   val |-> weather_risk(data) * high_speed(data)]>>

\* The assignments of the list `a` that write column c.
Writes(a, c) == {i \in DOMAIN a : a[i].col = c}

\* Column c of the data frame when preprocess_input returns: the value of the
\* last assignment to c, or the value the loop left.
column_value(a, data, c) ==
    IF Writes(a, c) = {} THEN init_value(data, c)
    ELSE a[CHOOSE i \in Writes(a, c) : \A j \in Writes(a, c) : j <= i].val

\* df[feature_names]: the schema's columns (their order is feature_names).
preprocess_input(data) ==
    CHOOSE frame \in
        {[c \in Range(feature_names) |-> column_value(a, data, c)] :
            a \in {assignments(data)}} : TRUE

----------------------------------------------------------------------------
(* adjust_probability, in fixed point *)

RISK_THRESHOLDS == [high |-> (70 * Scale) \div 100]

\* a * b rounded down / rounded up.
MulDown(a, b) == (a * b) \div Scale
MulUp(a, b) == (a * b + Scale - 1) \div Scale

\* pow(x, 5)
Pow5(x) == MulDown(MulDown(MulDown(MulDown(x, x), x), x), x)

\* pow(x, 0.33) is irrational.  For x in [0, 1] it lies between the cube root
\* and the fourth root of x; CubeRootDown is a fixed-point value at most the
\* cube root, FourthRootUp one at least the fourth root.
RECURSIVE CubeRootSearch(_, _, _)
CubeRootSearch(x, lo, hi) ==
    IF lo >= hi THEN lo
    ELSE LET mid == (lo + hi + 1) \div 2
         IN  IF MulUp(MulUp(mid, mid), mid) <= x
             THEN CubeRootSearch(x, mid, hi)
             ELSE CubeRootSearch(x, lo, mid - 1)

CubeRootDown(x) == CubeRootSearch(x, 0, Scale)

RECURSIVE FourthRootSearch(_, _, _)
FourthRootSearch(x, lo, hi) ==
    IF lo >= hi THEN lo
    ELSE LET mid == (lo + hi) \div 2
         IN  IF MulDown(MulDown(MulDown(mid, mid), mid), mid) >= x
             THEN FourthRootSearch(x, lo, mid)
             ELSE FourthRootSearch(x, mid + 1, hi)

FourthRootUp(x) == FourthRootSearch(x, 0, Scale)

\* The two ends of the interval that holds pow(x, 0.33).
Roundings == {"down", "up"}

Pow033(x, rounding) ==
    IF rounding = "down" THEN CubeRootDown(x) ELSE FourthRootUp(x)

Min(a, b) == IF a < b THEN a ELSE b
Max(a, b) == IF a > b THEN a ELSE b
Abs(a) == IF a < 0 THEN -a ELSE a

adjust_probability(prob, rounding) ==
    LET \* (prob * 0.5) / (prob * 0.5 + (1 - prob))
        adjusted == (prob * 5 * Scale) \div (prob * 5 + (Scale - prob) * 10)
        final_prob ==
            IF 2 * adjusted > Scale
            THEN LET normalized  == (2 * adjusted) - Scale
                     transformed == Pow5(normalized)
                 IN  (2 * Scale) \div 10 + (transformed * 7) \div 10
            ELSE LET normalized == 2 * adjusted
                 IN  (2 * Pow033(normalized, rounding)) \div 10
        \* 2 * abs(prob - 0.5)
        base_diff2 == Abs(2 * prob - Scale)
        corrected ==
            IF 10 * final_prob < 4 * Scale
            THEN final_prob + base_diff2 \div 100
            ELSE final_prob + (base_diff2 * 5) \div 200
    IN  Min(Max(corrected, 0), Scale)

\* The blend computed as the calibrated probability alone.
final_probability_noblend(adjusted_probability, base_risk_score) ==
    adjusted_probability

\* (adjusted_probability * 0.7) + (base_risk_score * 0.3)
final_probability(adjusted_probability, base_risk_score) ==
    (adjusted_probability * 7 + base_risk_score * 3) \div 10

\* The base risk score with the road-type trigger firing on every road type.
base_risk_score_anyroad(data) ==
    (IF data["speed_limit"] > 40 THEN Scale \div 10 ELSE 0)
  + (IF data["time_of_day"] \in {"Night", "Evening"} THEN Scale \div 10 ELSE 0)
  + (IF data["weather_conditions"] # "Fine" THEN Scale \div 10 ELSE 0)
  + (IF data["junction_detail"] # "Not at junction" THEN Scale \div 10 ELSE 0)
  + Scale \div 10

\* The five increments of 0.1 in predict.
base_risk_score(data) ==
    (IF data["speed_limit"] > 40 THEN Scale \div 10 ELSE 0)
  + (IF data["time_of_day"] \in {"Night", "Evening"} THEN Scale \div 10 ELSE 0)
  + (IF data["weather_conditions"] # "Fine" THEN Scale \div 10 ELSE 0)
  + (IF data["junction_detail"] # "Not at junction" THEN Scale \div 10 ELSE 0)
  + (IF data["road_type"] \in {6, 3} THEN Scale \div 10 ELSE 0)

\* "High Risk" if final_probability > RISK_THRESHOLDS['high'] else "Not High Risk"
classify(final) ==
    IF final > RISK_THRESHOLDS.high THEN "High Risk" ELSE "Not High Risk"

\* f"{p:.2%}": the percentage to two decimals, as hundredths of a percent.
FormatPercent(p) == (p * 10000 + Scale \div 2) \div Scale

----------------------------------------------------------------------------
(* predict *)

\* The request bodies.  get_json() returns None ("none"), raises ("bad_json":
\* a body that is no JSON), returns a JSON number ("number") or returns a JSON
\* object ("object", with its members in data).
BodyKinds == {"none", "bad_json", "number", "object"}

\* The values a member of a JSON object takes here: the options and one or two
\* other values of the same JSON type (integers, strings).
RawValues ==
    [road_type          |-> {1, 2, 3, 6, 5},
     weather_conditions |-> {"Fine", "Rain", "Snow", "Fog", "Hail"},
     speed_limit        |-> {20, 30, 40, 50, 60, 70, 45},
     time_of_day        |-> {"Morning", "Afternoon", "Evening", "Night", "Dawn"},
     junction_detail    |-> {"T Junction", "Crossroads", "Roundabout",
                             "Not at junction", "Slip road"}]

\* A member of the object: absent, or present with a value.
Absent(field) == [present |-> FALSE, v |-> CHOOSE x \in RawValues[field] : TRUE]

Members(field) ==
    {Absent(field)} \cup {[present |-> TRUE, v |-> x] : x \in RawValues[field]}

\* The members of a body of this kind (only an object has any).
MembersOf(kind, field) ==
    IF kind = "object" THEN Members(field) ELSE {Absent(field)}

\* The dict of the members that are present.
MakeData(members) ==
    [f \in {g \in FieldSet : members[g].present} |-> members[f].v]

\* What model.predict_proba does: it raises, or returns a probability k/ProbSteps.
PredictorOutcomes ==
    {[raises |-> TRUE, prob |-> 0]}
        \cup {[raises |-> FALSE, prob |-> (k * Scale) \div ProbSteps] : k \in 0..ProbSteps}

NoPrediction ==
    [risk_level |-> "", probability |-> 0, raw_probability |-> 0,
     risk_factors |-> <<>>, recommendations |-> <<>>]

\* Before any call: no response, nothing invoked.
NoCall ==
    [status |-> 0, error |-> "",
     has_details |-> FALSE, details |-> EmptyDict,
     has_prediction |-> FALSE, prediction |-> NoPrediction, input_data |-> EmptyDict,
     invoked |-> <<>>, exception |-> "",
     processed_data |-> EmptyDict, base_risk_score |-> 0,
     adjusted_probability |-> 0, final_probability |-> 0]

\* The handler returning the text of the exception to the caller.
except_handler_leak(c, invoked, exception) ==
    [c EXCEPT !.status = 500, !.error = exception,
              !.invoked = invoked, !.exception = exception]

\* except Exception as e: print, and the generic 500.
except_handler(c, invoked, exception) ==
    [c EXCEPT !.status = 500, !.error = "Failed to process prediction",
              !.invoked = invoked, !.exception = exception]

\* The statements of the try block after validation has passed.
predict_pipeline(data, outcome, rounding) ==
    LET processed_data == preprocess_input(data)
        c1 == [NoCall EXCEPT !.processed_data = processed_data]
    IN  IF outcome.raises
        THEN except_handler(c1, <<"get_json", "validate_input", "preprocess_input",
                                 "predict_proba">>, "predict_proba failed")
        ELSE
        LET raw_probability      == outcome.prob
            base                 == base_risk_score(data)
            adjusted_probability == adjust_probability(raw_probability, rounding)
            final                == final_probability(adjusted_probability, base)
            risk_level           == classify(final)
            risk_factors         == calculate_risk_factors(data)
            recommendations      ==
                generate_recommendations(data, risk_level, risk_factors)
        IN  [c1 EXCEPT
                !.status = 200,
                !.has_prediction = TRUE,
                !.prediction =
                    [risk_level      |-> risk_level,
                     probability     |-> FormatPercent(final),
                     raw_probability |-> FormatPercent(raw_probability),
                     risk_factors    |-> risk_factors,
                     recommendations |-> recommendations],
                !.input_data = data,
                !.invoked = <<"get_json", "validate_input", "preprocess_input",
                              "predict_proba", "adjust_probability",
                              "calculate_risk_factors", "generate_recommendations">>,
                !.base_risk_score = base,
                !.adjusted_probability = adjusted_probability,
                !.final_probability = final]

\* The try block of predict.
predict_try(body, outcome, rounding) ==
    IF body.kind = "bad_json"
    THEN except_handler(NoCall, <<"get_json">>, "400 Bad Request")
    ELSE IF body.kind = "none" \/ (body.kind = "object" /\ DOMAIN body.data = {})
    THEN \* `not data`: None, and the empty dict as well
         [NoCall EXCEPT !.status = 400, !.error = "No data provided",
                        !.invoked = <<"get_json">>]
    ELSE IF body.kind = "number"
    THEN \* `field not in data` on an int
         except_handler(NoCall, <<"get_json", "validate_input">>,
                        "argument of type 'int' is not iterable")
    ELSE LET validation_errors == validate_input(body.data)
         IN  IF DOMAIN validation_errors # {}
             THEN [NoCall EXCEPT !.status = 400, !.error = "Invalid input data",
                                 !.has_details = TRUE,
                                 !.details = validation_errors,
                                 !.invoked = <<"get_json", "validate_input">>]
             ELSE predict_pipeline(body.data, outcome, rounding)

\* predict without the test of `model`.
predict_nomodelcheck(body, outcome, rounding) ==
    IF model = "None" /\ body.kind = "object"
          /\ DOMAIN validate_input(body.data) = {} /\ DOMAIN body.data # {}
    THEN except_handler([NoCall EXCEPT !.processed_data = preprocess_input(body.data)],
                        <<"get_json", "validate_input", "preprocess_input",
                          "predict_proba">>,
                        "'NoneType' object has no attribute 'predict_proba'")
    ELSE predict_try(body, outcome, rounding)

predict(body, outcome, rounding) ==
    IF model = "None"
    THEN [NoCall EXCEPT !.status = 500,
                        !.error = "Model not loaded. Please try again later."]
    ELSE predict_try(body, outcome, rounding)

----------------------------------------------------------------------------
(* The service *)

NoRequest == [kind |-> "none", data |-> EmptyDict]

\* No direct call.
NoUnit == [fn |-> "", data |-> EmptyDict, risk_level |-> "",
           risk_factors |-> <<>>, result |-> <<>>]

Init ==
    /\ artifact \in Artifacts
    /\ model = load_model(artifact)
    /\ feature_names = load_feature_names(artifact)
    /\ pc = "idle"
    /\ request = NoRequest
    /\ call = NoCall
    /\ unit = NoUnit

\* POST /predict: the whole handler, for one request.
Predict ==
    /\ pc = "idle"
    /\ \E kind \in BodyKinds :
       \E rt \in MembersOf(kind, "road_type"),
          w \in MembersOf(kind, "weather_conditions"),
          s \in MembersOf(kind, "speed_limit"),
          t \in MembersOf(kind, "time_of_day"),
          j \in MembersOf(kind, "junction_detail") :
       \E body \in {[kind |-> kind,
                      data |-> MakeData([road_type |-> rt, weather_conditions |-> w,
                                         speed_limit |-> s, time_of_day |-> t,
                                         junction_detail |-> j])]} :
       \E outcome \in PredictorOutcomes, rounding \in Roundings :
          /\ request' = body
          /\ call' = predict(body, outcome, rounding)
    /\ pc' = "responded"
    /\ UNCHANGED <<artifact, model, feature_names, unit>>

\* The response is sent; the request's data is dropped.
Respond ==
    /\ pc = "responded"
    /\ pc' = "idle"
    /\ request' = NoRequest
    /\ call' = NoCall
    /\ UNCHANGED <<artifact, model, feature_names, unit>>

Next == Predict \/ Respond

Spec == Init /\ [][Next]_vars

----------------------------------------------------------------------------
(* The functions called directly, on every input of the bounded sets *)

RiskLevels == {"High Risk", "Not High Risk"}

\* Lists of risk factors handed to generate_recommendations: the empty list,
\* the list calculate_risk_factors returns, a list of another origin.
RiskFactorLists(data) ==
    {<<>>, calculate_risk_factors(data), <<"High speed zone">>}

UnitInit ==
    /\ artifact = "complete"
    /\ model = load_model(artifact)
    /\ feature_names = load_feature_names(artifact)
    /\ pc = "unit"
    /\ request = NoRequest
    /\ call = NoCall
    /\ \E rt \in Members("road_type"), w \in Members("weather_conditions"),
          s \in Members("speed_limit"), t \in Members("time_of_day"),
          j \in Members("junction_detail") :
          LET data == MakeData([road_type |-> rt, weather_conditions |-> w,
                                speed_limit |-> s, time_of_day |-> t,
                                junction_detail |-> j])
          IN  \/ unit = [NoUnit EXCEPT !.fn = "validate_input", !.data = data]
              \/ /\ DOMAIN validate_input(data) = {}
                 /\ \E risk_level \in RiskLevels,
                       risk_factors \in RiskFactorLists(data) :
                       unit = [NoUnit EXCEPT !.fn = "generate_recommendations",
                                             !.data = data,
                                             !.risk_level = risk_level,
                                             !.risk_factors = risk_factors]

CallValidateInput ==
    /\ pc = "unit"
    /\ unit.fn = "validate_input"
    /\ unit' = [unit EXCEPT !.result = validate_input(unit.data)]
    /\ pc' = "unit_done"
    /\ UNCHANGED <<artifact, model, feature_names, request, call>>

CallGenerateRecommendations ==
    /\ pc = "unit"
    /\ unit.fn = "generate_recommendations"
    /\ unit' = [unit EXCEPT !.result =
                   generate_recommendations(unit.data, unit.risk_level,
                                            unit.risk_factors)]
    /\ pc' = "unit_done"
    /\ UNCHANGED <<artifact, model, feature_names, request, call>>

UnitNext == CallValidateInput \/ CallGenerateRecommendations

SpecUnit == UnitInit /\ [][UnitNext]_vars

----------------------------------------------------------------------------
(* Properties *)

\* The enumerated set of each field of a request.
Enumerated ==
    [road_type          |-> {1, 2, 3, 6},
     weather_conditions |-> {"Fine", "Rain", "Snow", "Fog"},
     speed_limit        |-> {20, 30, 40, 50, 60, 70},
     time_of_day        |-> {"Morning", "Afternoon", "Evening", "Night"},
     junction_detail    |-> {"T Junction", "Crossroads", "Roundabout",
                             "Not at junction"}]

IsAbsent(data, f) == f \notin DOMAIN data
IsOutOfSet(data, f) == f \in DOMAIN data /\ data[f] \notin Enumerated[f]
BadFields(data) == {f \in FieldSet : IsAbsent(data, f) \/ IsOutOfSet(data, f)}
IsValid(data) == BadFields(data) = {}

\* The message for an absent field, and for a value outside the set.
FixedMessage ==
    [road_type          |-> "Please select a valid road type (1: Residential, 2: Suburban, 3: Rural, 6: Urban)",
     weather_conditions |-> "Please select valid weather conditions",
     speed_limit        |-> "Please select a valid speed limit",
     time_of_day        |-> "Please select a valid time of day",
     junction_detail    |-> "Please select a valid junction type"]

GeneratedMessage ==
    [road_type          |-> "Invalid value for road_type. Options are: [1, 2, 3, 6]",
     weather_conditions |-> "Invalid value for weather_conditions. Options are: ['Fine', 'Rain', 'Snow', 'Fog']",
     speed_limit        |-> "Invalid value for speed_limit. Options are: [20, 30, 40, 50, 60, 70]",
     time_of_day        |-> "Invalid value for time_of_day. Options are: ['Morning', 'Afternoon', 'Evening', 'Night']",
     junction_detail    |-> "Invalid value for junction_detail. Options are: ['T Junction', 'Crossroads', 'Roundabout', 'Not at junction']"]

\* The texts of the rules whose condition holds, in the order of the rules.
Fired(rules) ==
    LET sel == SelectSeq(rules, LAMBDA r : r.when)
    IN  [i \in 1..Len(sel) |-> sel[i].text]

Responded == pc = "responded"
Answered200 == pc = "responded" /\ call.status = 200
ObjectRequest == request.kind = "object"

\* C1: once loading has failed (no file, no dict, no 'model' key) the model is
\* None in every later state, and every answer of predict, whatever the body,
\* is the 500 "Model not loaded" answer, given before the body is read.
C1_ModelUnavailable ==
    artifact \in {"missing", "not_dict", "no_model_key"} =>
        /\ model = "None"
        /\ Responded =>
              /\ call.status = 500
              /\ call.error = "Model not loaded. Please try again later."
              /\ ~call.has_details /\ ~call.has_prediction
              /\ call.invoked = <<>>

\* A valid request answered while the model is unavailable.
C1_Witness ==
    /\ Responded /\ model = "None"
    /\ ObjectRequest /\ IsValid(request.data)
    /\ call.status = 500

\* C2: with the model loaded, a request whose JSON object has no road_type is
\* answered 400 with details.road_type the fixed road-type message, and neither
\* the encoder nor the Predictor is invoked.
C2_MissingRoadType ==
    (Responded /\ model = "loaded" /\ ObjectRequest
        /\ "road_type" \notin DOMAIN request.data) =>
        /\ call.status = 400
        /\ call.has_details
        /\ "road_type" \in DOMAIN call.details
        /\ call.details["road_type"] = FixedMessage["road_type"]
        /\ call.invoked = <<"get_json", "validate_input">>

\* C3: validate_input reports exactly the fields that are absent (fixed
\* message) or outside their enumerated set (generated message), all of them
\* together; the mapping is empty iff the input is valid.
C3_ValidateAll ==
    (pc = "unit_done" /\ unit.fn = "validate_input") =>
        /\ DOMAIN unit.result = BadFields(unit.data)
        /\ \A f \in DOMAIN unit.result :
              unit.result[f] = IF IsAbsent(unit.data, f)
                               THEN FixedMessage[f] ELSE GeneratedMessage[f]
        /\ (DOMAIN unit.result = {}) <=> IsValid(unit.data)

\* An input with an absent field and an out-of-set value: both are reported.
C3_Witness ==
    /\ pc = "unit_done" /\ unit.fn = "validate_input"
    /\ IsAbsent(unit.data, "road_type")
    /\ IsOutOfSet(unit.data, "speed_limit")
    /\ DOMAIN unit.result = {"road_type", "speed_limit"}

\* The schema columns of a one-hot group that hold 1 in the feature vector.
Ones(vector, group) ==
    {c \in Range(GroupColumns(group)) \cap DOMAIN vector : vector[c] = 1}

\* preprocess_input has returned a vector.
Preprocessed == Responded /\ "preprocess_input" \in Range(call.invoked)

\* ... for the schema of the complete artifact.
Encoded == Preprocessed /\ feature_names = ArtifactFeatureNames

\* The one-hot part of C4 holds whenever the schema has the one-hot columns:
\* exactly one feature of each group is 1.
OneHotExactlyOne ==
    (Preprocessed /\ feature_names # <<>>) =>
        \A g \in Groups : Cardinality(Ones(call.processed_data, g)) = 1

\* C4: for every valid input the feature vector has exactly one 1 in each
\* one-hot group and its speed_limit feature equals input.speed_limit / 70
\* (so it lies in [20/70, 70/70]).
C4_FeatureVector ==
    Encoded =>
        /\ \A g \in Groups : Cardinality(Ones(call.processed_data, g)) = 1
        /\ LET speed == call.processed_data["speed_limit"]
           IN  /\ speed.num * 70 = request.data["speed_limit"] * speed.den
               /\ 20 * speed.den <= 70 * speed.num
               /\ 70 * speed.num <= 70 * speed.den

\* C5: high_speed is 1 exactly when the raw speed_limit of the input is above
\* 40; night_speed_risk = is_night * high_speed and weather_speed_risk =
\* weather_risk * high_speed.
C5_HighSpeed ==
    (Preprocessed /\ feature_names # <<>>) =>
        LET v == call.processed_data
        IN  /\ v["high_speed"] = IF request.data["speed_limit"] > 40 THEN 1 ELSE 0
            /\ v["night_speed_risk"] = v["is_night"] * v["high_speed"]
            /\ v["weather_speed_risk"] = v["weather_risk"] * v["high_speed"]

\* What the code does instead: high_speed and both products are 0 for every
\* input, with or without 'speed_limit' in the schema; the speed_limit feature,
\* when the schema has it, is 0.
HighSpeedAlwaysZero ==
    (Preprocessed /\ feature_names # <<>>) =>
        /\ call.processed_data["high_speed"] = 0
        /\ call.processed_data["night_speed_risk"] = 0
        /\ call.processed_data["weather_speed_risk"] = 0
        /\ "speed_limit" \in DOMAIN call.processed_data =>
              call.processed_data["speed_limit"] = Frac(0, 70)

LowRiskInput ==
    [road_type |-> 1, weather_conditions |-> "Fine", speed_limit |-> 20,
     time_of_day |-> "Morning", junction_detail |-> "Not at junction"]

IsInput(data, input) ==
    DOMAIN data = FieldSet /\ \A f \in FieldSet : data[f] = input[f]

\* C6: for speed 20, Fine, Morning, not at a junction, residential, whatever
\* probability the Predictor returns, predict answers 200 with base risk score
\* 0, no risk factor and the three low-risk recommendations in order.
C6_LowRiskScenario ==
    (Responded /\ model = "loaded" /\ ObjectRequest
        /\ IsInput(request.data, LowRiskInput) /\ call.exception = "") =>
        /\ call.status = 200
        /\ call.base_risk_score = 0
        /\ call.prediction.risk_level = "Not High Risk"
        /\ call.prediction.risk_factors = <<>>
        /\ call.prediction.recommendations =
              <<"Continue regular maintenance and monitoring",
                "Maintain residential area safety features",
                "Current speed restrictions are appropriate">>

\* The low-risk input answered when the Predictor returns probability 1.
C6_Witness ==
    /\ Answered200 /\ ObjectRequest
    /\ IsInput(request.data, LowRiskInput)
    /\ call.prediction.raw_probability = 10000

IsDark(d) == d["time_of_day"] \in {"Night", "Evening"}
IsAdverse(d) == d["weather_conditions"] # "Fine"
IsFast(d) == d["speed_limit"] > 40
AtJunction(d) == d["junction_detail"] # "Not at junction"

HighRiskRuleTable(d, factors) ==
    <<[when |-> IsFast(d),     text |-> "Consider reducing speed limit in this area"],
      [when |-> AtJunction(d), text |-> "Install traffic monitoring cameras at the junction"],
      [when |-> IsDark(d),     text |-> "Improve street lighting conditions"],
      [when |-> IsAdverse(d),  text |-> "Install weather warning signs for "
                                            \o d["weather_conditions"] \o " conditions"],
      [when |-> factors # <<>>, text |-> "Increase police patrols in the area"]>>

NotHighRiskRuleTable(d, factors) ==
    <<[when |-> AtJunction(d), text |-> "Consider additional signage at the junction"],
      [when |-> IsAdverse(d),  text |-> "Ensure regular road maintenance"],
      [when |-> IsDark(d),     text |-> "Consider enhanced road markings"],
      [when |-> factors # <<>>, text |-> "Monitor conditions and maintain current safety measures"],
      [when |-> factors = <<>>, text |-> "Continue regular maintenance and monitoring"],
      [when |-> d["road_type"] = 1, text |-> "Maintain residential area safety features"],
      [when |-> d["speed_limit"] <= 30, text |-> "Current speed restrictions are appropriate"]>>

\* C7: generate_recommendations never returns an empty list; it returns the
\* texts of all rules that match, in rule order, and the single fallback
\* message when none matches.
C7_NeverEmpty ==
    (pc = "unit_done" /\ unit.fn = "generate_recommendations") =>
        LET matching ==
                Fired(IF unit.risk_level = "High Risk"
                      THEN HighRiskRuleTable(unit.data, unit.risk_factors)
                      ELSE NotHighRiskRuleTable(unit.data, unit.risk_factors))
        IN  /\ Len(unit.result) >= 1
            /\ matching # <<>> => unit.result = matching
            /\ matching = <<>> =>
                  unit.result = <<"No specific recommendations needed at this time">>

\* A High Risk call in which no rule matches: the fallback is returned.
C7_Witness ==
    /\ pc = "unit_done" /\ unit.fn = "generate_recommendations"
    /\ unit.risk_level = "High Risk"
    /\ unit.risk_factors = <<>>
    /\ unit.result = <<"No specific recommendations needed at this time">>

NoData ==
    /\ call.status = 400 /\ call.error = "No data provided"
    /\ ~call.has_details /\ ~call.has_prediction

InvalidInput ==
    /\ call.status = 400 /\ call.error = "Invalid input data"
    /\ call.has_details /\ ~call.has_prediction
    /\ ObjectRequest
    /\ DOMAIN call.details = BadFields(request.data)
    /\ DOMAIN call.details # {}

Success ==
    /\ call.status = 200 /\ call.error = ""
    /\ call.has_prediction /\ ~call.has_details
    /\ call.input_data = request.data

GenericFailure ==
    /\ call.status = 500 /\ call.error = "Failed to process prediction"
    /\ ~call.has_details /\ ~call.has_prediction

Count(b) == IF b THEN 1 ELSE 0

\* C8: with the model loaded every answer is exactly one of: 400 no data, 400
\* invalid input with the field errors, 200 with the prediction, the generic
\* 500.  Every exception gives the generic 500, without its text; the Predictor
\* is called only on a request that validated.
C8_Outcomes ==
    (Responded /\ model = "loaded") =>
        /\ Count(NoData) + Count(InvalidInput) + Count(Success)
              + Count(GenericFailure) = 1
        /\ call.exception # "" => GenericFailure /\ call.error # call.exception
        /\ "predict_proba" \in Range(call.invoked) =>
              /\ ObjectRequest /\ IsValid(request.data)
              /\ call.invoked[2] = "validate_input"

\* The Predictor raises on a valid request: the generic 500.
C8_Witness ==
    /\ Responded /\ model = "loaded"
    /\ call.exception = "predict_proba failed"
    /\ call.status = 500

RiskFactorRuleTable(d) ==
    <<[when |-> IsDark(d),     text |-> "Limited visibility during night/evening hours"],
      [when |-> IsAdverse(d),  text |-> "Adverse weather conditions ("
                                            \o d["weather_conditions"] \o ")"],
      [when |-> IsFast(d),     text |-> "High speed zone"],
      [when |-> AtJunction(d), text |-> "Complex junction type ("
                                            \o d["junction_detail"] \o ")"],
      [when |-> d["road_type"] = 6, text |-> "Urban area with high traffic"],
      [when |-> d["road_type"] = 3, text |-> "Rural road with potential hazards"]>>

AllTriggersInput ==
    [road_type |-> 6, weather_conditions |-> "Rain", speed_limit |-> 50,
     time_of_day |-> "Night", junction_detail |-> "Crossroads"]

\* C9: the risk factors are those of exactly the rules that hold, in the order
\* visibility, weather, high speed, junction, road type (6 or 3 only; 1 and 2
\* give none), one per 0.1 of the base risk score; the input Urban, Rain, 50,
\* Night, Crossroads gives the five factors and base risk score 0.5.
C9_RiskFactors ==
    Answered200 =>
        /\ call.prediction.risk_factors = Fired(RiskFactorRuleTable(request.data))
        /\ call.base_risk_score
              = Len(call.prediction.risk_factors) * (Scale \div 10)
        /\ IsInput(request.data, AllTriggersInput) =>
              /\ call.prediction.risk_factors =
                    <<"Limited visibility during night/evening hours",
                      "Adverse weather conditions (Rain)",
                      "High speed zone",
                      "Complex junction type (Crossroads)",
                      "Urban area with high traffic">>
              /\ call.base_risk_score = 5 * (Scale \div 10)

\* The five-trigger input answered.
C9_Witness ==
    /\ Answered200
    /\ IsInput(request.data, AllTriggersInput)
    /\ Len(call.prediction.risk_factors) = 5

\* C10: a High Risk answer has a positive base risk score, a non-empty list of
\* risk factors and the police-patrol recommendation; no answer of predict
\* holds the fallback recommendation.
C10_HighRiskNeedsTrigger ==
    Answered200 =>
        /\ call.prediction.risk_level = "High Risk" =>
              /\ call.base_risk_score > 0
              /\ call.prediction.risk_factors # <<>>
              /\ "Increase police patrols in the area"
                    \in Range(call.prediction.recommendations)
        /\ "No specific recommendations needed at this time"
              \notin Range(call.prediction.recommendations)

\* A High Risk answer.
C10_Witness ==
    /\ Answered200
    /\ call.prediction.risk_level = "High Risk"

====
